---- MODULE Spec2Model ----
(***************************************************************************)
(* A model of spider.py: the single-hop crawler (retrieve_page, get_links, *)
(* get_domain, follow_links) with its per-domain JSON cache file, and the  *)
(* term-frequency scoring (calculate_tf).                                  *)
(*                                                                         *)
(* A Python str is a sequence of one-character strings.  Python's None is  *)
(* the one-element sequence None, which no str equals.  Every I/O call of  *)
(* a function is recorded, in order, in the event log of the call.         *)
(***************************************************************************)
EXTENDS Integers, Sequences, FiniteSets, TLC

VARIABLES
  files,      \* the working directory: file name -> file text
  fn,         \* the function whose call has just completed, or "idle"
  url,        \* its url argument
  base,       \* retrieve_page's base argument
  exc,        \* the exception the call raised, or "none"
  ret,        \* what the call returned
  events,     \* the I/O the call performed, in order
  links,      \* the link targets get_links gave the call (follow_links)
  stored,     \* history: file name -> the PageSet returned by the crawl that wrote it
  emptySeeds, \* history: the seeds whose cache-miss crawl found no anchor
  word_list,  \* calculate_tf's argument
  tf,         \* calculate_tf's result: word -> score in thousandths
  tf_state    \* "input", "returned" or "ZeroDivisionError"

vars == <<files, fn, url, base, exc, ret, events, links, stored, emptySeeds,
          word_list, tf, tf_state>>

(***************************************************************************)
(* Bounds.                                                                 *)
(***************************************************************************)
\* the most anchors the seed page holds
MaxLinks == 2
\* the longest token stream calculate_tf is given
MaxWords == 4

(***************************************************************************)
(* Strings.                                                                *)
(***************************************************************************)
None == <<"None">>

StartsWith(s, p) == Len(s) >= Len(p) /\ SubSeq(s, 1, Len(p)) = p

Drop(s, n) == SubSeq(s, n + 1, Len(s))

Max(S) == CHOOSE x \in S : \A y \in S : y <= x

Min(S) == CHOOSE x \in S : \A y \in S : x <= y

http == <<"h", "t", "t", "p">>

HttpSlashes == http \o <<":", "/", "/">>

HttpsSlashes == http \o <<"s", ":", "/", "/">>

(***************************************************************************)
(* The seed URLs and link targets the calls are given.                     *)
(***************************************************************************)
\* http://e.c/x
SeedX == HttpSlashes \o <<"e", ".", "c", "/", "x">>
\* http://e.c/a.h : the same host, a path with a dot
SeedAH == HttpSlashes \o <<"e", ".", "c", "/", "a", ".", "h">>
\* https://www.e.c
SeedWww == HttpsSlashes \o <<"w", "w", "w", ".", "e", ".", "c">>
\* e.c/x : no scheme
SeedNoScheme == <<"e", ".", "c", "/", "x">>
\* http://local : no dot
SeedNoDot == HttpSlashes \o <<"l", "o", "c", "a", "l">>

\* http://e. : nothing after the dot
SeedDotLast == HttpSlashes \o <<"e", ".">>

Seeds == {SeedX, SeedAH, SeedWww, SeedNoScheme, SeedNoDot, SeedDotLast}

\* the base arguments retrieve_page is called with
Bases == {SeedX, SeedWww}

\* "" : an anchor with an empty href
LinkEmpty == <<>>
\* /x
LinkRel == <<"/", "x">>
\* http-g : a relative target whose text begins with http
LinkHttpRel == http \o <<"-", "g">>
\* ftp:x : a target with another scheme
LinkFtp == <<"f", "t", "p", ":", "x">>
\* http://o.c
LinkAbs == HttpSlashes \o <<"o", ".", "c">>

\* the url arguments retrieve_page is called with
Links == {None, LinkEmpty, LinkRel, LinkHttpRel, LinkFtp, LinkAbs}

\* the hrefs of the anchors of a seed page
Hrefs == {None, LinkEmpty, LinkRel, LinkAbs}

LinkSeqs == UNION {[1..n -> Hrefs] : n \in 0..MaxLinks}

(***************************************************************************)
(* The network.  requests.get(url).text raises for a URL that is neither   *)
(* http:// nor https:// (MissingSchema, InvalidSchema); for any other URL  *)
(* the network decides: out is what it gives this GET, Fail (the GET       *)
(* raises) or the text of the page.                                        *)
(***************************************************************************)
Fail == <<"Fail">>

PageA == <<"a", "\"", "\\", "\n", ",", "]">>

Outcomes == {Fail, PageA}

\* what the network gives the GETs of one crawl: net[0] the seed's, net[i]
\* that of link i
Nets == [0..MaxLinks -> Outcomes]

AllUp == [i \in 0..MaxLinks |-> PageA]

requests_get(u, out) ==
  IF ~(StartsWith(u, HttpSlashes) \/ StartsWith(u, HttpsSlashes)) THEN Fail
  ELSE out

\* an I/O call with its argument and, for a GET, what it gave
Ev(o, a, r) == [op |-> o, arg |-> a, out |-> r]

\* time.sleep(0.2)
Sleep == Ev("sleep", <<"0", ".", "2">>, <<>>)

(***************************************************************************)
(* retrieve_page(url, base): the text of the page, '' when url is None or  *)
(* the GET raises.                                                         *)
(***************************************************************************)
retrieve_page(u, b, out) ==
  IF u = None THEN [ret |-> <<>>, ev |-> <<>>]
  ELSE LET target == IF ~StartsWith(u, http) THEN b \o u ELSE u
           content == requests_get(target, out)
       IN  IF content = Fail
             THEN [ret |-> <<>>, ev |-> <<Ev("get", target, Fail)>>]
             ELSE [ret |-> content, ev |-> <<Ev("get", target, content), Sleep>>]

(***************************************************************************)
(* get_links(content): the href of every anchor BeautifulSoup finds, None  *)
(* for an anchor without one.  The parse is the library's: soup is what it *)
(* finds in a non-empty document; the empty document holds no anchor.      *)
(***************************************************************************)
get_links(content, soup) == IF content = <<>> THEN <<>> ELSE soup

(***************************************************************************)
(* get_domain(url): group 2 of re.match(r'https?://(www\.)?(.+)\..+', url).*)
(* '.' matches no newline, so the match stays on the first line; (.+) is   *)
(* greedy, so it ends before the last dot that still leaves one character; *)
(* (www\.)? is tried first and given up when the rest does not match.      *)
(* No match: m is None and m.group raises AttributeError (ok = FALSE).     *)
(***************************************************************************)
FirstLine(r) ==
  LET nl == {i \in 1..Len(r) : r[i] = "\n"}
  IN  IF nl = {} THEN r ELSE SubSeq(r, 1, Min(nl) - 1)

GreedyDots(r) == {i \in 2..(Len(FirstLine(r)) - 1) : r[i] = "."}

www == <<"w", "w", "w", ".">>

\* a get_domain that falls back on the whole url when nothing matches
get_domain_Lenient(u) ==
  LET rest == IF StartsWith(u, HttpsSlashes) THEN Drop(u, Len(HttpsSlashes))
              ELSE Drop(u, Len(HttpSlashes))
  IN  IF (StartsWith(u, HttpSlashes) \/ StartsWith(u, HttpsSlashes))
         /\ GreedyDots(rest) # {}
        THEN [ok |-> TRUE, group2 |-> SubSeq(rest, 1, Max(GreedyDots(rest)) - 1)]
        ELSE [ok |-> TRUE, group2 |-> u]

get_domain(u) ==
  LET rest == IF StartsWith(u, HttpsSlashes) THEN Drop(u, Len(HttpsSlashes))
              ELSE Drop(u, Len(HttpSlashes))
      noWww == Drop(rest, Len(www))
  IN  IF ~(StartsWith(u, HttpSlashes) \/ StartsWith(u, HttpsSlashes))
        THEN [ok |-> FALSE, group2 |-> <<>>]
      ELSE IF StartsWith(rest, www) /\ GreedyDots(noWww) # {}
        THEN [ok |-> TRUE, group2 |-> SubSeq(noWww, 1, Max(GreedyDots(noWww)) - 1)]
      ELSE IF GreedyDots(rest) # {}
        THEN [ok |-> TRUE, group2 |-> SubSeq(rest, 1, Max(GreedyDots(rest)) - 1)]
      ELSE [ok |-> FALSE, group2 |-> <<>>]

DotJson == <<".", "j", "s", "o", "n">>

(***************************************************************************)
(* The cache file's text.  json.dump(pages, f) writes a JSON array of      *)
(* strings, the items separated by ', ', each string quoted with '"', '\'  *)
(* and the control characters escaped; json.load(f) parses it back.        *)
(***************************************************************************)
\* an encoder that escapes nothing
py_encode_char_NoEscape(c) == <<c>>

py_encode_char(c) ==
  CASE c = "\"" -> <<"\\", "\"">>
    [] c = "\\" -> <<"\\", "\\">>
    [] c = "\n" -> <<"\\", "n">>
    [] OTHER -> <<c>>

RECURSIVE py_encode_basestring(_)
py_encode_basestring(s) ==
  IF s = <<>> THEN <<>>
  ELSE py_encode_char(Head(s)) \o py_encode_basestring(Tail(s))

RECURSIVE json_items(_)
json_items(pages) ==
  IF pages = <<>> THEN <<>>
  ELSE <<"\"">> \o py_encode_basestring(Head(pages)) \o <<"\"">>
       \o (IF Len(pages) > 1 THEN <<",", " ">> ELSE <<>>)
       \o json_items(Tail(pages))

json_dump(pages) == <<"[">> \o json_items(pages) \o <<"]">>

py_decode_char(e) == IF e = "n" THEN "\n" ELSE e

\* the string whose opening quote is at i - 1: its value and the index after
\* its closing quote; not ok when the text ends first
RECURSIVE py_scanstring(_, _, _)
py_scanstring(s, i, acc) ==
  IF i > Len(s) THEN [ok |-> FALSE, val |-> acc, next |-> i]
  ELSE IF s[i] = "\"" THEN [ok |-> TRUE, val |-> acc, next |-> i + 1]
  ELSE IF s[i] = "\\"
    THEN IF i + 1 > Len(s) THEN [ok |-> FALSE, val |-> acc, next |-> i]
         ELSE py_scanstring(s, i + 2, Append(acc, py_decode_char(s[i + 1])))
  ELSE py_scanstring(s, i + 1, Append(acc, s[i]))

RECURSIVE skip_whitespace(_, _)
skip_whitespace(s, i) ==
  IF i <= Len(s) /\ s[i] = " " THEN skip_whitespace(s, i + 1) ELSE i

JSONDecodeError == [ok |-> FALSE, val |-> <<>>]

\* the items of the array from index i on, i at the first character of an item
RECURSIVE JSONArray(_, _, _)
JSONArray(s, i, acc) ==
  IF i > Len(s) \/ s[i] # "\"" THEN JSONDecodeError
  ELSE LET str == py_scanstring(s, i + 1, <<>>)
           j == skip_whitespace(s, str.next)
       IN  IF ~str.ok \/ j > Len(s) THEN JSONDecodeError
           ELSE IF s[j] = "]"
             THEN IF j = Len(s) THEN [ok |-> TRUE, val |-> Append(acc, str.val)]
                  ELSE JSONDecodeError
           ELSE IF s[j] = ","
             THEN JSONArray(s, skip_whitespace(s, j + 1), Append(acc, str.val))
           ELSE JSONDecodeError

json_load(s) ==
  LET i == skip_whitespace(s, 2)
  IN  IF Len(s) < 2 \/ s[1] # "[" THEN JSONDecodeError
      ELSE IF s[i] = "]"
        THEN IF i = Len(s) THEN [ok |-> TRUE, val |-> <<>>] ELSE JSONDecodeError
      ELSE JSONArray(s, i, <<>>)

(***************************************************************************)
(* The working directory.  A file name is a key of the directory: every    *)
(* directory a name with a '/' needs is taken to exist and to be writable, *)
(* so that open(cache_fname, 'w') succeeds.                                *)
(***************************************************************************)
NoFiles == [n \in {} |-> <<>>]

isfile(fs, name) == name \in DOMAIN fs

write(fs, name, text) ==
  [n \in DOMAIN fs \cup {name} |-> IF n = name THEN text ELSE fs[n]]

(***************************************************************************)
(* follow_links(url) in directory fs, soup being the anchors of the seed   *)
(* page and net what the network gives: the exception, the returned pages, *)
(* the I/O, the directory afterwards, the link targets followed and        *)
(* whether the cache was written.                                          *)
(***************************************************************************)
RECURSIVE Concat(_)
Concat(ss) == IF ss = <<>> THEN <<>> ELSE Head(ss) \o Concat(Tail(ss))

\* the cache file exists: its pages are returned
load_cache(fs, cache_fname) ==
  LET pages == json_load(fs[cache_fname])
  IN  [exc |-> IF pages.ok THEN "none" ELSE "JSONDecodeError",
       ret |-> pages.val,
       ev |-> <<Ev("isfile", cache_fname, <<>>), Ev("read", cache_fname, <<>>)>>,
       fs |-> fs, links |-> <<>>, wrote |-> FALSE]

\* a crawl that stops at the first link whose page comes back empty
fetch_and_save_StopsAtEmpty(u, fs, soup, net, cache_fname) ==
  LET content == retrieve_page(u, u, net[0])
      found == get_links(content.ret, soup)
      fetched == [i \in 1..Len(found) |-> retrieve_page(found[i], u, net[i])]
      empty == {i \in 1..Len(found) : fetched[i].ret = <<>>}
      n == IF empty = {} THEN Len(found) ELSE Min(empty) - 1
      pages == [i \in 1..n |-> fetched[i].ret]
  IN  [exc |-> "none", ret |-> pages,
       ev |-> <<Ev("isfile", cache_fname, <<>>)>> \o content.ev
              \o Concat([i \in 1..n |-> fetched[i].ev])
              \o <<Ev("write", cache_fname, <<>>)>>,
       fs |-> write(fs, cache_fname, json_dump(pages)),
       links |-> found, wrote |-> TRUE]

\* no cache file: the seed and each of its links are fetched, the pages saved
fetch_and_save(u, fs, soup, net, cache_fname) ==
  LET content == retrieve_page(u, u, net[0])
      found == get_links(content.ret, soup)
      fetched == [i \in 1..Len(found) |-> retrieve_page(found[i], u, net[i])]
      pages == [i \in 1..Len(found) |-> fetched[i].ret]
  IN  [exc |-> "none", ret |-> pages,
       ev |-> <<Ev("isfile", cache_fname, <<>>)>> \o content.ev
              \o Concat([i \in 1..Len(found) |-> fetched[i].ev])
              \o <<Ev("write", cache_fname, <<>>)>>,
       fs |-> write(fs, cache_fname, json_dump(pages)),
       links |-> found, wrote |-> TRUE]

\* a follow_links that never looks for the cache file
follow_links_IgnoresCache(u, fs, soup, net) ==
  LET m == get_domain(u)
  IN  IF ~m.ok
        THEN [exc |-> "AttributeError", ret |-> <<>>, ev |-> <<>>, fs |-> fs,
              links |-> <<>>, wrote |-> FALSE]
        ELSE fetch_and_save(u, fs, soup, net, m.group2 \o DotJson)

follow_links(u, fs, soup, net) ==
  LET m == get_domain(u)
      cache_fname == m.group2 \o DotJson
  IN  IF ~m.ok
        THEN [exc |-> "AttributeError", ret |-> <<>>, ev |-> <<>>, fs |-> fs,
              links |-> <<>>, wrote |-> FALSE]
      ELSE IF isfile(fs, cache_fname) THEN load_cache(fs, cache_fname)
      ELSE fetch_and_save(u, fs, soup, net, cache_fname)

(***************************************************************************)
(* calculate_tf(word_list): one pass counts each word and tracks the       *)
(* largest count; a second pass over the counted words divides by it and   *)
(* rounds to three decimals (a score is held in thousandths).  The         *)
(* division is only reached for a counted word.                            *)
(***************************************************************************)
Words == {"ab", "cd", "ef"}

WordLists == UNION {[1..n -> Words] : n \in 0..MaxWords}

\* round(c / k, 3) in thousandths, for k >= 1 (no tie arises below k = 16)
round3(c, k) == (2000 * c + k) \div (2 * k)

RECURSIVE count_pass(_, _, _)
count_pass(ws, counts, max_freq) ==
  IF ws = <<>> THEN [tf |-> counts, max_freq |-> max_freq]
  ELSE LET w == Head(ws)
           c == (IF w \in DOMAIN counts THEN counts[w] ELSE 0) + 1
       IN  count_pass(Tail(ws),
                      [x \in DOMAIN counts \cup {w} |-> IF x = w THEN c ELSE counts[x]],
                      IF c > max_freq THEN c ELSE max_freq)

\* a calculate_tf that divides by the number of tokens
calculate_tf_ByTotal(ws) ==
  LET p == count_pass(ws, [w \in {} |-> 0], 0)
  IN  IF Len(ws) = 0
        THEN [state |-> "ZeroDivisionError", tf |-> p.tf]
        ELSE [state |-> "returned",
              tf |-> [w \in DOMAIN p.tf |-> round3(p.tf[w], Len(ws))]]

calculate_tf(ws) ==
  LET p == count_pass(ws, [w \in {} |-> 0], 0)
  IN  IF DOMAIN p.tf # {} /\ p.max_freq = 0
        THEN [state |-> "ZeroDivisionError", tf |-> p.tf]
        ELSE [state |-> "returned",
              tf |-> [w \in DOMAIN p.tf |-> round3(p.tf[w], p.max_freq)]]

(***************************************************************************)
(* The crawler: calls of follow_links and retrieve_page, one at a time.    *)
(***************************************************************************)
Init ==
  /\ files = NoFiles
  /\ fn = "idle"
  /\ url = <<>>
  /\ base = <<>>
  /\ exc = "none"
  /\ ret = <<>>
  /\ events = <<>>
  /\ links = <<>>
  /\ stored = NoFiles
  /\ emptySeeds = {}
  /\ word_list = <<>>
  /\ tf = [w \in {} |-> 0]
  /\ tf_state = "input"

FollowLinks(u, soup, net) ==
  LET r == follow_links(u, files, soup, net)
  IN  /\ fn = "idle"
      /\ fn' = "follow_links"
      /\ url' = u
      /\ base' = <<>>
      /\ exc' = r.exc
      /\ ret' = r.ret
      /\ events' = r.ev
      /\ links' = r.links
      /\ files' = r.fs
      /\ stored' = IF r.wrote
                     THEN write(stored, get_domain(u).group2 \o DotJson, r.ret)
                     ELSE stored
      /\ emptySeeds' = IF r.wrote /\ r.links = <<>>
                         THEN emptySeeds \cup {u} ELSE emptySeeds
      /\ UNCHANGED <<word_list, tf, tf_state>>

RetrievePage(u, b, out) ==
  LET r == retrieve_page(u, b, out)
  IN  /\ fn = "idle"
      /\ fn' = "retrieve_page"
      /\ url' = u
      /\ base' = b
      /\ exc' = "none"
      /\ ret' = r.ret
      /\ events' = r.ev
      /\ UNCHANGED <<files, links, stored, emptySeeds, word_list, tf, tf_state>>

\* the caller takes the result; the next call starts afresh
Return ==
  /\ fn # "idle"
  /\ fn' = "idle"
  /\ url' = <<>>
  /\ base' = <<>>
  /\ exc' = "none"
  /\ ret' = <<>>
  /\ events' = <<>>
  /\ links' = <<>>
  /\ UNCHANGED <<files, stored, emptySeeds, word_list, tf, tf_state>>

\* a crawl of u gets as far as the network: the seed matches and no cache
\* file exists
Fetches(u) ==
  get_domain(u).ok /\ ~isfile(files, get_domain(u).group2 \o DotJson)

\* what the network may give a crawl of u; immaterial to one that fetches
\* nothing
NetsOf(u) == IF Fetches(u) THEN Nets ELSE {AllUp}

\* the anchor lists BeautifulSoup may find for a crawl of u: any, when the
\* crawl gets as far as parsing a page; immaterial otherwise
Soups(u, net) ==
  IF Fetches(u) /\ requests_get(u, net[0]) # Fail THEN LinkSeqs ELSE {<<>>}

Next ==
  \/ \E u \in Seeds : \E net \in NetsOf(u) : \E soup \in Soups(u, net) :
       FollowLinks(u, soup, net)
  \/ \E u \in Links, b \in Bases, out \in Outcomes : RetrievePage(u, b, out)
  \/ Return

Spec == Init /\ [][Next]_vars

(***************************************************************************)
(* The frequency analysis: calculate_tf applied to a token stream.         *)
(***************************************************************************)
InitTf ==
  /\ files = NoFiles
  /\ fn = "idle"
  /\ url = <<>>
  /\ base = <<>>
  /\ exc = "none"
  /\ ret = <<>>
  /\ events = <<>>
  /\ links = <<>>
  /\ stored = NoFiles
  /\ emptySeeds = {}
  /\ word_list \in WordLists
  /\ tf = [w \in {} |-> 0]
  /\ tf_state = "input"

CalculateTf ==
  LET r == calculate_tf(word_list)
  IN  /\ tf_state = "input"
      /\ tf_state' = r.state
      /\ tf' = r.tf
      /\ UNCHANGED <<files, fn, url, base, exc, ret, events, links, stored,
                     emptySeeds, word_list>>

NextTf == CalculateTf

SpecTf == InitTf /\ [][NextTf]_vars

(***************************************************************************)
(* Notions the properties are stated with.                                 *)
(***************************************************************************)
IsGet(e) == e.op = "get"

Gets(ev) == SelectSeq(ev, IsGet)

SchemeOf(u) == IF StartsWith(u, HttpsSlashes) THEN HttpsSlashes ELSE HttpSlashes

\* u is http(s):// followed by text with a dot that is neither first nor last
MatchesPattern(u) ==
  /\ StartsWith(u, HttpSlashes) \/ StartsWith(u, HttpsSlashes)
  /\ \E i \in (Len(SchemeOf(u)) + 2)..(Len(u) - 1) : u[i] = "."

\* the host of a URL that matches: what follows the scheme, up to the first '/'
Host(u) ==
  LET rest == Drop(u, Len(SchemeOf(u)))
      slashes == {i \in 1..Len(rest) : rest[i] = "/"}
  IN  IF slashes = {} THEN rest ELSE SubSeq(rest, 1, Min(slashes) - 1)

\* the cache file name follow_links computes for a seed
CacheKey(u) == get_domain(u).group2 \o DotJson

\* RFC 3986: a URL has a scheme when a ':' follows a letter and scheme characters
SchemeChars ==
  {"a", "b", "c", "d", "e", "f", "g", "h", "i", "j", "k", "l", "m", "n", "o",
   "p", "q", "r", "s", "t", "u", "v", "w", "x", "y", "z", "+", "-", "."}

HasScheme(u) ==
  \E i \in 2..Len(u) :
    u[i] = ":" /\ u[1] \in SchemeChars \ {"+", "-", "."}
    /\ \A j \in 1..(i - 1) : u[j] \in SchemeChars

\* a call of follow_links starts in this step, the seed matching the pattern
CrawlStep == fn = "idle" /\ fn' = "follow_links" /\ MatchesPattern(url')

CacheHitStep == CrawlStep /\ isfile(files, CacheKey(url'))

CacheMissStep == CrawlStep /\ ~isfile(files, CacheKey(url'))

NoNetwork(ev) == \A i \in 1..Len(ev) : ev[i].op # "get"

NoWrite(ev) == \A i \in 1..Len(ev) : ev[i].op # "write"

\* the outcome of the GET of the link at position i: the request of a link
\* that is not None is the next GET after those of the seed and of the
\* earlier links that are not None
RequestOf(ev, ls, i) ==
  Gets(ev)[1 + Cardinality({j \in 1..i : ls[j] # None})]

PageOf(ev, ls, i) ==
  IF ls[i] = None THEN <<>>
  ELSE IF RequestOf(ev, ls, i).out = Fail THEN <<>>
  ELSE RequestOf(ev, ls, i).out

(***************************************************************************)
(* C1: the cache key depends only on the URL's domain: the key a crawl     *)
(* computes for its seed is the key of every other matching URL with the   *)
(* same host, whatever its path.                                           *)
(***************************************************************************)
C1_KeyDependsOnlyOnDomain ==
  (fn = "follow_links" /\ exc = "none") =>
    \A u \in Seeds :
      (MatchesPattern(u) /\ Host(u) = Host(url)) => CacheKey(u) = events[1].arg

(***************************************************************************)
(* C2: a crawl that finds the cache file of its seed's key returns the     *)
(* pages the file holds, fetches nothing, writes nothing and leaves the    *)
(* directory as it was.                                                    *)
(***************************************************************************)
C2_CacheHitReturnsCached ==
  [][CacheHitStep =>
       /\ exc' = "none"
       /\ json_load(files[CacheKey(url')]) = [ok |-> TRUE, val |-> ret']
       /\ NoNetwork(events')
       /\ NoWrite(events')
       /\ files' = files]_vars

C2_Witness ==
  /\ fn = "follow_links"
  /\ Len(events) = 2
  /\ events[2].op = "read"
  /\ events[2].arg = CacheKey(url)
  /\ Len(ret) > 0

C4_SleepAfterEveryGet ==
  \A i \in 1..Len(events) :
    events[i].op = "get" => (i < Len(events) /\ events[i + 1] = Sleep)

(***************************************************************************)
(* C5: retrieve_page with url None or '' returns '' without a GET, and a   *)
(* crawl issues one GET for the seed and one for each link that is neither.*)
(***************************************************************************)
C5_EmptyOrAbsentSkipped ==
  /\ (fn = "retrieve_page" /\ url \in {None, <<>>}) =>
       (ret = <<>> /\ events = <<>>)
  /\ (fn = "follow_links" /\ Len(Gets(events)) > 0) =>
       Len(Gets(events)) =
         1 + Cardinality({j \in 1..Len(links) : links[j] \notin {None, <<>>}})

(***************************************************************************)
(* C6: retrieve_page requests url itself when url has a scheme, and        *)
(* base + url when it has none.                                            *)
(***************************************************************************)
C6_RequestsResolvedUrl ==
  (fn = "retrieve_page" /\ url # None) =>
    /\ Len(events) >= 1
    /\ events[1].op = "get"
    /\ events[1].arg = IF HasScheme(url) THEN url ELSE base \o url

(***************************************************************************)
(* C7: a crawl whose seed does not match the pattern raises the error of   *)
(* get_domain with no I/O done: no GET, no cache file read or written.     *)
(***************************************************************************)
C7_MalformedSeedAborts ==
  [][(fn = "idle" /\ fn' = "follow_links" /\ ~MatchesPattern(url')) =>
       /\ exc' = "AttributeError"
       /\ events' = <<>>
       /\ files' = files]_vars

C7_Witness ==
  /\ fn = "follow_links"
  /\ ~MatchesPattern(url)
  /\ exc = "AttributeError"
  /\ DOMAIN files # {}

(***************************************************************************)
(* C8: what is stored is what is loaded: every cache file parses to the    *)
(* pages returned by the crawl that wrote it, and a crawl that finds the   *)
(* file returns those pages.                                               *)
(***************************************************************************)
C8_CacheRoundTrip ==
  [][/\ \A n \in DOMAIN files' :
          n \in DOMAIN stored' /\ json_load(files'[n]) = [ok |-> TRUE, val |-> stored'[n]]
     /\ CacheHitStep => (exc' = "none" /\ ret' = stored[CacheKey(url')])]_vars

C8_Witness ==
  /\ fn = "follow_links"
  /\ Len(events) = 2
  /\ events[2].op = "read"
  /\ \E i, j \in 1..Len(ret) : i < j /\ ret[i] = PageA /\ ret[j] = <<>>

(***************************************************************************)
(* C9: calculate_tf returns, without a division error, a mapping whose     *)
(* keys are the distinct tokens and whose value for a token is its count   *)
(* over the largest count k, rounded to the nearest thousandth: 1.000 for  *)
(* a token counted k times, at most 1.000 for any; empty for no tokens.    *)
(***************************************************************************)
CountOf(ws, w) == Cardinality({i \in 1..Len(ws) : ws[i] = w})

MaxCount(ws) == Max({CountOf(ws, ws[i]) : i \in 1..Len(ws)})

C9_RelativeFrequencies ==
  tf_state # "input" =>
    /\ tf_state = "returned"
    /\ DOMAIN tf = {word_list[i] : i \in 1..Len(word_list)}
    /\ \A w \in DOMAIN tf :
         LET c == CountOf(word_list, w)
             k == MaxCount(word_list)
             d == 1000 * c - tf[w] * k
         IN  /\ 2 * (IF d < 0 THEN -d ELSE d) <= k
             /\ c = k => tf[w] = 1000
             /\ tf[w] <= 1000

C9_Witness ==
  /\ tf_state = "returned"
  /\ \E v, w \in DOMAIN tf : tf[v] = 1000 /\ tf[w] = 333

(***************************************************************************)
(* C10: a crawl that finds no cache file and no anchor in the seed page    *)
(* fetches no link, returns no page and stores the empty array under its   *)
(* key; every later crawl of that domain returns no page, from the cache,  *)
(* without a GET.                                                          *)
(***************************************************************************)
C10_EmptyCrawlIsCached ==
  [][/\ (CacheMissStep /\ links' = <<>>) =>
          /\ Len(Gets(events')) = 1
          /\ ret' = <<>>
          /\ isfile(files', CacheKey(url'))
          /\ files'[CacheKey(url')] = <<"[", "]">>
     /\ (CrawlStep /\ \E s \in emptySeeds : Host(s) = Host(url')) =>
          /\ exc' = "none"
          /\ ret' = <<>>
          /\ NoNetwork(events')]_vars

====
